---- MODULE Spec2Model ----
(***************************************************************************)
(* A model of the gummi engine's resource map (engine/internal/resourceMap) *)
(* with its typed loaders (text/xml/audio through loadDecodeParse, and the  *)
(* texture loader), and of the game loop (engine/internal/loop) driving     *)
(* scenes (engine/renderer/scene).                                          *)
(*                                                                          *)
(* JavaScript runs one task at a time.  A call made by client code is one   *)
(* action.  An async function is split where it awaits: the part before the *)
(* await belongs to the calling action, the continuation is an action of    *)
(* its own (a microtask).  Host events (a fetch completing, an image        *)
(* loading, an animation frame) are tasks: they start only when no          *)
(* continuation is ready to run.                                            *)
(***************************************************************************)
EXTENDS Integers, Sequences, FiniteSets, TLC

\* ------------------------------------------------------------------ bounds
\* Resource paths used by the model.
Keys == {"a", "b"}
\* Promises (pending operations) created in one behaviour.
MaxRequests == 2
\* loadX and unloadX calls made by client code directly, in one behaviour.
MaxCalls == 3
\* waitOnRequests() calls by client code suspended at the same time.
MaxWaits == 1
\* Animation frames requested in one behaviour.
MaxFrames == 3
\* The clock (performance.now()) stops advancing here; in milliseconds.
MaxTime == 40
\* The same, where the loop runs a scene that only draws and updates.
MaxStall == 500

\* Scene instances the client may create and start, each at most once.
Scenes == {"s1", "s2"}
\* The paths a scene's load() loads and its unload() unloads (as NextLevel
\* does with its scene file and audio clips).
SceneKeys(s) == IF s = "s2" THEN <<"a", "b">> ELSE <<"a">>
\* The five functions a scene class has to supply.
Methods == {"init", "load", "unload", "draw", "update"}
\* Scene classes that leave one of the five to Scene, named after it.
AbstractScenes == {"noInit", "noLoad", "noUnload", "noDraw", "noUpdate"}
\* Scene itself, and the classes above.
SceneClasses == {"Scene"} \cup AbstractScenes
AllScenes == Scenes \cup SceneClasses
\* Instances of those classes the client creates.
MaxScenes == 1
\* the functions the class of scene s overrides
Overrides(s) ==
  CASE s = "Scene" -> {}
    [] s = "noInit" -> Methods \ {"init"}
    [] s = "noLoad" -> Methods \ {"load"}
    [] s = "noUnload" -> Methods \ {"unload"}
    [] s = "noDraw" -> Methods \ {"draw"}
    [] s = "noUpdate" -> Methods \ {"update"}
    [] OTHER -> Methods
\* Advances of the clock between two tasks, in milliseconds.
TickChoices == {10, 20}
\* The same, where the loop runs a scene that only draws and updates: three
\* fixed steps, fifteen, and a stalled frame.
StallChoices == {50, 250, 500}

\* ------------------------------------------------------- double arithmetic
\* _lagTime and MILLISECONDS_PER_UPDATE are IEEE-754 doubles.  A double d >= 0
\* is modelled exactly, as the integer d * 2^48 written <<hi, lo>> in base
\* 2^28 (hi * 2^28 + lo).  Every value the loop computes from a clock that
\* reads whole milliseconds is such an integer.
Limb == 2^28

\* carry or borrow between the two digits
DNorm(hi, lo) ==
  IF lo < 0 THEN <<hi - 1, lo + Limb>>
  ELSE IF lo >= Limb THEN <<hi + 1, lo - Limb>>
  ELSE <<hi, lo>>

\* the distance between neighbouring doubles around hi * 2^28, in units of
\* 2^-48: a double has 53 significant bits, so 1 below 2^53 units (32 ms)
DUlp(hi) ==
  IF hi < 2^25 THEN 1
  ELSE IF hi < 2^26 THEN 2
  ELSE IF hi < 2^27 THEN 4
  ELSE IF hi < 2^28 THEN 8
  ELSE IF hi < 2^29 THEN 16
  ELSE IF hi < 2^30 THEN 32
  ELSE 64

\* round an exact result to the nearest double, ties to the even mantissa
DRound(x) ==
  LET u == DUlp(x[1])
      q == x[2] % u
      down == x[2] - q
      up == IF 2 * q > u \/ (2 * q = u /\ (down \div u) % 2 = 1)
              THEN down + u ELSE down
  IN DNorm(x[1], up)

\* x + y and x - y (x >= y) as the machine computes them
DAdd(x, y) == DRound(DNorm(x[1] + y[1], x[2] + y[2]))
DSub(x, y) == DRound(DNorm(x[1] - y[1], x[2] - y[2]))
\* x >= y
DGeq(x, y) == x[1] > y[1] \/ (x[1] = y[1] /\ x[2] >= y[2])
\* a whole number of milliseconds is a double
DFromMs(ms) == <<ms * 2^20, 0>>
DZero == <<0, 0>>

\* a / b for integers with 16 <= a / b < 32, where neighbouring doubles are
\* 2^-48 apart: long division, 14 bits at a time, the last digit rounded
DDiv(a, b) ==
  LET q0 == (a * 2^20) \div b
      r0 == (a * 2^20) % b
      q1 == (r0 * 2^14) \div b
      r1 == (r0 * 2^14) % b
      q2 == (r1 * 2^14) \div b
      r2 == (r1 * 2^14) % b
      up == IF 2 * r2 > b \/ (2 * r2 = b /\ q2 % 2 = 1) THEN 1 ELSE 0
  IN DNorm(q0, q1 * 2^14 + q2 + up)

\* half the update rate
UPDATES_PER_SECOND_Halved == 60 \div 2
\* loop.ts: UPDATES_PER_SECOND = 60
UPDATES_PER_SECOND == 60
\* loop.ts: MILLISECONDS_PER_UPDATE = 1000 / UPDATES_PER_SECOND, the double
\* nearest to 16.666...: 16.666666666666668
MILLISECONDS_PER_UPDATE == DDiv(1000, UPDATES_PER_SECOND)

\* The value of MapEntry._data while a load is in flight.
Null == << >>
\* No scene attached to the loop (let _scene: Scene | null).
NoScene == "none"

VARIABLES
  map,                  \* _map: path -> MapEntry (the domain is the key set)
  outstandingRequests,  \* _outstandingRequests: array of promises (by id)
  promises,             \* every promise created: [path, kind, state]
  waiters,              \* suspended waitOnRequests() calls, in call order
  glTextures,           \* WebGL textures created and not deleted (by promise id)
  loads,                \* ghost: loadX calls per path
  unloads,              \* ghost: unloadX calls per path that did not throw
  calls,                \* ghost: loadX and unloadX calls made by client code
  requestedSince,       \* ghost: paths passed to loadX since a barrier last settled
  lastCall,             \* ghost: the call or event of the last step, and its result
  scene,                \* _scene: the scene the loop drives, or NoScene
  frameId,              \* _frameId: the handle of the last frame requested
  running,              \* _running
  previousTime,         \* _previousTime
  lagTime,              \* _lagTime, a double
  now,                  \* performance.now()
  rafCallbacks,         \* host: frames requested, not yet dispatched or cancelled
  rafNext,              \* host: the handle the next requestAnimationFrame returns
  frame,                \* position of the frame callback: "none" or "drain" (in the while loop)
  phase,                \* ghost: per scene, the last lifecycle call it received
  inits,                \* ghost: init() calls per scene
  loadReqs,             \* ghost: per scene, the promises registered during its load()
  unloadCalls,          \* ghost: unload() calls per scene
  frameTrace,           \* ghost: the frame callback running or last run: the lag and the
                        \*   elapsed time it found, and the calls it made, in order
  run,                  \* ghost: when the loop last entered Running, and the update()
                        \*   calls made since
  input,                \* _isKeyDown, _keyPreviousState, _isKeyPressed: [down, prev, pressed]
  keyLog                \* ghost: per key, whether it was down at the poll before the
                        \*   last and at the last poll, and its latest event

cacheVars == <<map, outstandingRequests, promises, waiters, glTextures>>
ghostVars == <<loads, unloads, calls, requestedSince, lastCall>>
loopVars == <<scene, frameId, running, previousTime, lagTime>>
hostVars == <<now, rafCallbacks, rafNext, frame>>
sceneVars == <<phase, inits, loadReqs, unloadCalls>>
traceVars == <<frameTrace, run>>
inputVars == <<input, keyLog>>
vars == <<cacheVars, ghostVars, loopVars, hostVars, sceneVars, traceVars, inputVars>>

\* ------------------------------------------------------------------ input
\* The key codes at hand: Key.Space, Key.CloseBracket, Key.SingleQuote.
KeyCodes == {32, 221, 222}

\* LAST_KEY: "the last key code available for use"
LAST_KEY == 222

\* An array element is "true", "false", or "undefined" when never assigned.
Truthy(x) == x = "true"

\* the arrays after initInput(): for (i = 0; i < LAST_KEY; i++) each is false
initInput ==
  LET cleared == [k \in KeyCodes |-> IF k < LAST_KEY THEN "false" ELSE "undefined"]
  IN [down |-> cleared, prev |-> cleared, pressed |-> cleared]

\* _onKeyDown(event): _isKeyDown[event.keyCode] = true
onKeyDown(in, k) == [in EXCEPT !.down[k] = "true"]

\* _onKeyUp(event): _isKeyDown[event.keyCode] = false
onKeyUp(in, k) == [in EXCEPT !.down[k] = "false"]

\* updateInput(): for (i = 0; i < LAST_KEY; i++) {
\*   _isKeyPressed[i] = !_keyPreviousState[i] && _isKeyDown[i];
\*   _keyPreviousState[i] = _isKeyDown[i] }
updateInput(in) ==
  [in EXCEPT
     !.pressed = [k \in KeyCodes |->
                   IF k < LAST_KEY
                     THEN (IF Truthy(in.prev[k]) THEN "false" ELSE in.down[k])
                     ELSE in.pressed[k]],
     !.prev = [k \in KeyCodes |-> IF k < LAST_KEY THEN in.down[k] ELSE in.prev[k]]]

\* isKeyDown(keyCode)
isKeyDown(in, k) == in.down[k]

\* isKeyPressed(keyCode)
isKeyPressed(in, k) == in.pressed[k]

\* ------------------------------------------------------------ ghost record
\* op: the call or event; path: its path or scene; result: what it returned or
\* threw (for draw and update: the phase the scene was in when called).  who:
\* the scene a resumed startLoop call was given.  did: what a draw() or
\* update() did besides its own work.  value: the data getResource returned
\* or setResource was given.  For unloadTexture, snap
\* holds the handle of the texture the entry held.  pre: the reference count an unload found.  barrier, snap, keys: the
\* outcome of a waitOnRequests() call that settled in the step, the promises
\* it was waiting for, and the paths requested since the barrier before it.
Call(op, path, result) ==
  [op |-> op, path |-> path, result |-> result, pre |-> -1,
   barrier |-> "-", snap |-> {}, keys |-> {}, who |-> "-", did |-> "-",
   value |-> Null, threw |-> ""]

\* --------------------------------------------------------------- MapEntry
\* an entry created with no reference
MapEntryNoRef(data) == [data |-> data, refCount |-> 0]

\* constructor(data): _data = data, _refCount = 1
MapEntry(data) == [data |-> data, refCount |-> 1]

\* MapEntry.canRemove
canRemove(entry) == entry.refCount <= 0

\* a getData that returns null data
getDataNeverThrows(entry) == FALSE

\* MapEntry.getData throws ResourceError('Resource data is null') on null data
getDataThrows(entry) == entry.data = Null

\* ------------------------------------------------------------ resourceMap
hasResource(m, path) == path \in DOMAIN m

\* getResource throws ResourceError('... not found in resource map') on an
\* absent path
getResourceThrows(m, path) == ~hasResource(m, path)

\* getResource(path): how the call ends
getResourceResult(m, path) ==
  IF getResourceThrows(m, path) THEN "ResourceError: not found"
  ELSE IF getDataThrows(m[path]) THEN "ResourceError: data is null"
  ELSE "returned"

\* getResource(path): the value returned, _map.get(path)?.getData()
getResource(m, path) ==
  IF getResourceResult(m, path) = "ResourceError: not found" THEN Null ELSE m[path].data

\* an incrementRefCount without its check
incrementRefCountNeverThrows(m, path) == FALSE

\* incrementRefCount throws ResourceError on an absent path
incrementRefCountThrows(m, path) == ~hasResource(m, path)

\* setResource throws ResourceError on an absent path
setResourceThrows(m, path) == ~hasResource(m, path)

\* a requestLoad that keeps an entry already there
requestLoadIfAbsent(m, path) ==
  IF path \in DOMAIN m THEN m
  ELSE [k \in DOMAIN m \cup {path} |-> IF k = path THEN MapEntry(Null) ELSE m[k]]

\* _map.set(path, new MapEntry(null)): unconditional
requestLoad(m, path) ==
  [k \in DOMAIN m \cup {path} |-> IF k = path THEN MapEntry(Null) ELSE m[k]]

\* _map.get(path)?.incrementRefCount(): nothing on an absent path
incrementRefCount(m, path) ==
  IF hasResource(m, path) THEN [m EXCEPT ![path].refCount = @ + 1] ELSE m

\* _map.get(path)?.setData(resource): nothing on an absent path
setResource(m, path, resource) ==
  IF hasResource(m, path) THEN [m EXCEPT ![path].data = resource] ELSE m

\* _map.delete(path)
mapDelete(m, path) == [k \in DOMAIN m \ {path} |-> m[k]]

\* unloadResource on a present path: the map afterwards.  The entry's
\* reference count is read (canRemove) and never written.
unloadResourceMap(m, path) ==
  IF canRemove(m[path]) THEN mapDelete(m, path) ELSE m

\* unloadResource on a present path: the value returned, entry.canRemove()
unloadResourceReturn(m, path) == canRemove(m[path])

\* pushRequest
pushRequest(reqs, request) == Append(reqs, request)

\* ---------------------------------------------------------------- promises
\* fetches and image loads started for a path so far
Fetches(path) == Cardinality({p \in 1..Len(promises) : promises[p].path = path})
\* host: the fetch or image load under the promise, "loading" until the host
\* has reported its outcome
NewPromise(path, kind) ==
  [path |-> path, kind |-> kind, state |-> "pending", host |-> "loading"]
Settle(ps, p, state) == [ps EXCEPT ![p].state = state, ![p].host = "done"]
Rejected(snap) == {p \in snap : promises[p].state = "rejected"}
Pending(snap) == {p \in snap : promises[p].state = "pending"}

\* Promise.all over the array as it was when waitOnRequests was called
AllRejects(snap) == Rejected(snap) # {}
AllResolves(snap) == \A p \in snap : promises[p].state = "fulfilled"
Ready(w) == AllRejects(w.snap) \/ AllResolves(w.snap)
\* a continuation is ready to run: host tasks wait for it
MicrotaskPending == \E i \in 1..Len(waiters) : Ready(waiters[i])

Range(s) == {s[i] : i \in 1..Len(s)}

\* -------------------------------------------------------------------- Init
Init ==
  /\ map = << >>
  /\ outstandingRequests = << >>
  /\ promises = << >>
  /\ waiters = << >>
  /\ glTextures = {}
  /\ loads = [k \in Keys |-> 0]
  /\ unloads = [k \in Keys |-> 0]
  /\ calls = 0
  /\ requestedSince = {}
  /\ lastCall = Call("-", "-", "-")
  /\ scene = NoScene
  /\ frameId = -1
  /\ running = FALSE
  /\ previousTime = 0
  /\ lagTime = DZero
  /\ now = 0
  /\ rafCallbacks = {}
  /\ rafNext = 1
  /\ frame = "none"
  /\ phase = [s \in AllScenes |-> IF s \in Scenes THEN "new" ELSE "unbuilt"]
  /\ inits = [s \in AllScenes |-> 0]
  /\ loadReqs = [s \in AllScenes |-> {}]
  /\ unloadCalls = [s \in AllScenes |-> 0]
  /\ frameTrace = [lag0 |-> DZero, elapsed |-> 0, log |-> << >>]
  /\ run = [startTime |-> 0, updates |-> 0]
  /\ input = initInput
  /\ keyLog = [before |-> [k \in KeyCodes |-> FALSE],
               at |-> [k \in KeyCodes |-> FALSE],
               latest |-> [k \in KeyCodes |-> "none"]]

\* ------------------------------------------------------------- the world
\* The module-level state of resourceMap, texture and loop (with the ghost
\* counters) as one value, so that a caller making several calls in a row (a
\* scene's load(), unload(), next() or stop()) is one step.  threw is the
\* exception that ended the calls so far ("" for none).
World ==
  [map |-> map, reqs |-> outstandingRequests, ps |-> promises, tex |-> glTextures,
   loads |-> loads, unloads |-> unloads, since |-> requestedSince,
   waiters |-> waiters, scene |-> scene, running |-> running, frameId |-> frameId,
   raf |-> rafCallbacks, phase |-> phase, loadReqs |-> loadReqs,
   unloadCalls |-> unloadCalls, threw |-> ""]

SetWorld(w) ==
  /\ map' = w.map
  /\ outstandingRequests' = w.reqs
  /\ promises' = w.ps
  /\ glTextures' = w.tex
  /\ loads' = w.loads
  /\ unloads' = w.unloads
  /\ requestedSince' = w.since
  /\ waiters' = w.waiters
  /\ scene' = w.scene
  /\ running' = w.running
  /\ frameId' = w.frameId
  /\ rafCallbacks' = w.raf
  /\ phase' = w.phase
  /\ loadReqs' = w.loadReqs
  /\ unloadCalls' = w.unloadCalls

Throw(w, error) == [w EXCEPT !.threw = error]

\* ghost: a loadX(path) call was made
CountLoad(w, path) == [w EXCEPT !.loads[path] = @ + 1, !.since = @ \cup {path}]

\* a new promise is created and pushed: fetch(path)... ; pushRequest(fetchPromise)
StartRequest(w, path, kind) ==
  [w EXCEPT !.ps = Append(@, NewPromise(path, kind)),
            !.reqs = pushRequest(@, Len(w.ps) + 1)]

\* ----------------------------------------------------------- typed loaders
\* a loadDecodeParse that fetches on a hit as on a miss
loadDecodeParseAlwaysFetches(w, path) ==
  [CountLoad(w, path) EXCEPT !.map = requestLoad(@, path),
                             !.ps = Append(@, NewPromise(path, "fetch")),
                             !.reqs = pushRequest(@, Len(w.ps) + 1)]

\* loadText / loadXml / loadAudio: loadDecodeParse(path, decode, parse)
loadDecodeParse(w, path) ==
  IF ~hasResource(w.map, path)
    THEN StartRequest([CountLoad(w, path) EXCEPT !.map = requestLoad(@, path)], path, "fetch")
    ELSE [CountLoad(w, path) EXCEPT !.map = incrementRefCount(@, path)]

\* what loadDecodeParse returns: the promise, or null on a hit
loadDecodeParseReturn(w, path) == IF ~hasResource(w.map, path) THEN "promise" ELSE "null"

\* texture.loadTexture: the image load is started, and its promise pushed,
\* on a hit as on a miss
loadTexture(w, path) ==
  StartRequest([CountLoad(w, path) EXCEPT
                  !.map = IF hasResource(@, path) THEN incrementRefCount(@, path)
                                                  ELSE requestLoad(@, path)],
               path, "image")

\* unloadResource throws ResourceError on an absent path
unloadResourceThrows(w, path) == ~hasResource(w.map, path)

\* unloadText / unloadXml / unloadAudio: unloadResource(path), on a present path
unloadResource(w, path) ==
  [w EXCEPT !.map = unloadResourceMap(@, path), !.unloads[path] = @ + 1]

\* texture.unloadTexture throws when getTexture does: on an absent path
\* (getResource) and on null data (getData)
unloadTextureThrows(w, path) == ~hasResource(w.map, path) \/ w.map[path].data = Null

\* texture.unloadTexture on a loaded texture: gl.deleteTexture(texture.data)
\* only when unloadResource returned true
unloadTexture(w, path) ==
  [unloadResource(w, path) EXCEPT
     !.tex = IF unloadResourceReturn(w.map, path) THEN @ \ {w.map[path].data[2]} ELSE @]

\* waitOnRequests() up to its await: Promise.all(_outstandingRequests) reads
\* the array as it is now
waitOnRequests(w, caller) ==
  [w EXCEPT !.waiters = Append(@, [snap |-> Range(w.reqs), caller |-> caller])]

\* --------------------------------------------------------------- scenes
RECURSIVE LoadAll(_, _), UnloadAll(_, _)
\* a scene's load(): one loadXml / loadAudio call per path, in order
LoadAll(w, paths) ==
  IF paths = << >> THEN w
  ELSE LoadAll(loadDecodeParse(w, Head(paths)), Tail(paths))

\* a scene's unload(): one unloadXml / unloadAudio call per path, in order,
\* ended by the first that throws
UnloadAll(w, paths) ==
  IF paths = << >> THEN w
  ELSE IF unloadResourceThrows(w, Head(paths)) THEN Throw(w, "ResourceError")
  ELSE UnloadAll(unloadResource(w, Head(paths)), Tail(paths))

\* a Scene whose own functions do nothing
notImplementedNever(s, method) == FALSE

\* s.method is Scene's own: throw new SceneError('method() not implemented')
notImplemented(s, method) == method \notin Overrides(s)

\* new class(): Scene's constructor throws when this.constructor === Scene
constructorThrows(class) == class = "Scene"

\* s.load(), with the promises it registered recorded
sceneLoad(w, s) ==
  IF notImplemented(s, "load") THEN Throw(w, "SceneError")
  ELSE LET w1 == LoadAll([w EXCEPT !.phase[s] = "loaded"], SceneKeys(s)) IN
         [w1 EXCEPT !.loadReqs[s] = (Len(w.ps) + 1)..Len(w1.ps)]

\* s.unload()
sceneUnload(w, s) ==
  IF notImplemented(s, "unload") THEN Throw(w, "SceneError")
  ELSE UnloadAll([w EXCEPT !.phase[s] = "unloaded", !.unloadCalls[s] = @ + 1],
                 SceneKeys(s))

\* s.init() throws when it is Scene's own, or when a resource it reads is
\* absent or still null
\* (NextLevel.init: xml.getXml(SCENE_SRC), audio.playBgm(BGM_SRC))
initThrows(w, s) ==
  \/ notImplemented(s, "init")
  \/ \E i \in 1..Len(SceneKeys(s)) :
       ~hasResource(w.map, SceneKeys(s)[i]) \/ w.map[SceneKeys(s)[i]].data = Null

\* what s.init() throws when it throws
initError(s) == IF notImplemented(s, "init") THEN "SceneError" ELSE "Error"

\* ----------------------------------------------------------------- loop
\* a stopLoop that leaves the requested frame scheduled
stopLoopKeepsFrame(w) == [w EXCEPT !.running = FALSE]

\* a stopLoop that cancels the frame and leaves the loop running
stopLoopKeepsRunning(w) == [w EXCEPT !.raf = @ \ {w.frameId}]

\* stopLoop(): _running = false; cancelAnimationFrame(_frameId)
stopLoop(w) == [w EXCEPT !.running = FALSE, !.raf = @ \ {w.frameId}]

\* a startLoop without its guard
startLoopNeverThrows(w) == FALSE

\* startLoop(scene) throws LoopError (its promise rejects) when _running
startLoopThrows(w) == w.running

\* a startLoop that keeps the previous time it finds
startLoopKeepsPreviousTime(prev, t) == prev

\* startLoop(scene) after its await: _previousTime = performance.now()
startLoopPreviousTime(prev, t) == t

\* startLoop(scene) up to its await, when not running:
\* _scene = scene; _scene.load(); await waitOnRequests()
\* An exception of load() ends the call there (its promise rejects).
startLoop(w, s) ==
  LET w1 == sceneLoad([w EXCEPT !.scene = s], s) IN
    IF w1.threw # "" THEN w1 ELSE waitOnRequests(w1, s)

\* cleanupLoop(): throws without a scene; stopLoop(); _scene.unload(); _scene = null
cleanupLoop(w) ==
  IF w.scene = NoScene THEN Throw(w, "LoopError")
  ELSE LET w1 == sceneUnload(stopLoop(w), w.scene) IN
         IF w1.threw # "" THEN w1 ELSE [w1 EXCEPT !.scene = NoScene]

\* Scene.next(): stopLoop(); this.unload()
sceneNext(w, s) == sceneUnload(stopLoop(w), s)

\* NextLevel.next(): super.next(); new Client().start().  start() is async:
\* a LoopError inside it rejects its promise and is not thrown here.
sceneNextStart(w, s, n) ==
  LET w1 == sceneNext(w, s) IN
    IF w1.threw # "" \/ startLoopThrows(w1) THEN w1
    ELSE [startLoop(w1, n) EXCEPT !.threw = ""]

\* Scene.stop(): stopLoop(); this.unload(); cleanup(), which starts with cleanupLoop()
sceneStop(w, s) ==
  LET w1 == sceneUnload(stopLoop(w), s) IN
    IF w1.threw # "" THEN w1 ELSE cleanupLoop(w1)

\* ------------------------------------------------------ calls by client code
LoopUnchanged ==
  UNCHANGED <<previousTime, lagTime, now, rafNext, frame, inits, traceVars, inputVars>>
LoopAllUnchanged == UNCHANGED <<loopVars, hostVars, sceneVars, traceVars, inputVars>>

\* a poll of the input: updateInput() is called (keyLog: what the keys were
\* at the poll before and are at this one)
PollInput ==
  /\ input' = updateInput(input)
  /\ keyLog' = [keyLog EXCEPT !.before = keyLog.at,
                              !.at = [k \in KeyCodes |-> keyLog.latest[k] = "down"]]
ClientCall == calls < MaxCalls /\ calls' = calls + 1

\* the client calls loadText(path) (or loadXml, loadAudio)
LoadText(path) ==
  /\ frame = "none"
  /\ ClientCall
  /\ hasResource(map, path) \/ Len(promises) < MaxRequests
  /\ SetWorld(loadDecodeParse(World, path))
  /\ lastCall' = Call("load", path, loadDecodeParseReturn(World, path))
  /\ LoopUnchanged

\* the client calls loadTexture(path)
LoadTexture(path) ==
  /\ frame = "none"
  /\ ClientCall
  /\ Len(promises) < MaxRequests
  /\ SetWorld(loadTexture(World, path))
  /\ lastCall' = Call("loadTexture", path, "promise")
  /\ LoopUnchanged

\* the client calls unloadText(path) (or unloadXml, unloadAudio)
UnloadText(path) ==
  /\ frame = "none"
  /\ ClientCall
  /\ IF unloadResourceThrows(World, path)
       THEN /\ lastCall' = Call("unload", path, "ResourceError")
            /\ SetWorld(World)
       ELSE /\ SetWorld(unloadResource(World, path))
            /\ lastCall' = [Call("unload", path,
                                 IF unloadResourceReturn(map, path) THEN "true" ELSE "false")
                              EXCEPT !.pre = map[path].refCount]
  /\ LoopUnchanged

\* the client calls unloadTexture(path)
UnloadTexture(path) ==
  /\ frame = "none"
  /\ ClientCall
  /\ IF unloadTextureThrows(World, path)
       THEN /\ lastCall' = Call("unloadTexture", path, "ResourceError")
            /\ SetWorld(World)
       ELSE /\ SetWorld(unloadTexture(World, path))
            /\ lastCall' = [Call("unloadTexture", path,
                                 IF unloadResourceReturn(map, path) THEN "true" ELSE "false")
                              EXCEPT !.pre = map[path].refCount,
                                     !.snap = {map[path].data[2]}]
  /\ LoopUnchanged

\* the client calls getResource(path) (getText, getXml, ...)
GetResource(path) ==
  /\ frame = "none"
  /\ lastCall' = [Call("getResource", path, getResourceResult(map, path))
                    EXCEPT !.value = getResource(map, path)]
  /\ UNCHANGED <<cacheVars, loads, unloads, calls, requestedSince>>
  /\ LoopAllUnchanged

\* the client calls incrementRefCount(path)
IncrementRefCount(path) ==
  /\ frame = "none"
  /\ ClientCall
  /\ IF incrementRefCountThrows(map, path)
       THEN /\ lastCall' = Call("incrementRefCount", path, "ResourceError: not found")
            /\ UNCHANGED map
       ELSE /\ map' = incrementRefCount(map, path)
            /\ lastCall' = Call("incrementRefCount", path, "ok")
  /\ UNCHANGED <<outstandingRequests, promises, waiters, glTextures,
                 loads, unloads, requestedSince>>
  /\ LoopAllUnchanged

\* the client calls setResource(path, data)
SetResource(path, data) ==
  /\ frame = "none"
  /\ ClientCall
  /\ IF setResourceThrows(map, path)
       THEN /\ lastCall' = [Call("setResource", path, "ResourceError: not found")
                              EXCEPT !.value = data]
            /\ UNCHANGED map
       ELSE /\ map' = setResource(map, path, data)
            /\ lastCall' = [Call("setResource", path, "ok") EXCEPT !.value = data]
  /\ UNCHANGED <<outstandingRequests, promises, waiters, glTextures,
                 loads, unloads, requestedSince>>
  /\ LoopAllUnchanged

\* the client calls requestLoad(path)
RequestLoad(path) ==
  /\ frame = "none"
  /\ ClientCall
  /\ map' = requestLoad(map, path)
  /\ lastCall' = [Call("requestLoad", path, "ok")
                    EXCEPT !.pre = IF hasResource(map, path) THEN map[path].refCount ELSE 0]
  /\ UNCHANGED <<outstandingRequests, promises, waiters, glTextures,
                 loads, unloads, requestedSince>>
  /\ LoopAllUnchanged

\* the client calls waitOnRequests()
WaitOnRequests ==
  /\ frame = "none"
  /\ Len(waiters) < MaxWaits
  /\ SetWorld(waitOnRequests(World, "client"))
  /\ lastCall' = Call("waitOnRequests", "-", "suspended")
  /\ UNCHANGED calls
  /\ LoopUnchanged

\* ------------------------------------------------------------- host events
CacheGhostUnchanged == UNCHANGED <<loads, unloads, calls, requestedSince>>

\* What the last .then of a load does once the data is there:
\* setResource(path, data) throws on an absent path, and the promise rejects
StoreLoaded(p, data) ==
  LET path == promises[p].path IN
    IF hasResource(map, path)
      THEN /\ map' = setResource(map, path, data)
           /\ promises' = Settle(promises, p, "fulfilled")
           /\ lastCall' = Call(promises[p].kind, path, "fulfilled")
      ELSE /\ promises' = Settle(promises, p, "rejected")
           /\ lastCall' = Call(promises[p].kind, path, "rejected")
           /\ UNCHANGED map

\* fetch(path) resolved and decode and parse succeeded:
\* .then(data => setResource(path, data))
FetchResolve(p) ==
  /\ p \in 1..Len(promises)
  /\ promises[p].kind = "fetch" /\ promises[p].state = "pending"
  /\ ~MicrotaskPending /\ frame = "none"
  /\ StoreLoaded(p, <<"data", p>>)
  /\ UNCHANGED <<outstandingRequests, waiters, glTextures>>
  /\ CacheGhostUnchanged /\ LoopAllUnchanged

\* fetch, decode or parse failed: .catch rethrows ResourceError naming the path
FetchFail(p) ==
  /\ p \in 1..Len(promises)
  /\ promises[p].kind = "fetch" /\ promises[p].state = "pending"
  /\ ~MicrotaskPending /\ frame = "none"
  /\ promises' = Settle(promises, p, "rejected")
  /\ lastCall' = Call("fetch", promises[p].path, "rejected")
  /\ UNCHANGED <<map, outstandingRequests, waiters, glTextures>>
  /\ CacheGhostUnchanged /\ LoopAllUnchanged

\* image.onload, then processLoadedImage(path, image): a texture is created
\* and stored with setResource.  No onerror handler exists: an image that
\* fails to load leaves the promise pending.
ImageLoad(p) ==
  /\ p \in 1..Len(promises)
  /\ promises[p].kind = "image" /\ promises[p].state = "pending"
  /\ promises[p].host = "loading"
  /\ ~MicrotaskPending /\ frame = "none"
  /\ StoreLoaded(p, <<"texture", p>>)
  /\ glTextures' = glTextures \cup {p}
  /\ UNCHANGED <<outstandingRequests, waiters>>
  /\ CacheGhostUnchanged /\ LoopAllUnchanged

\* the image fails to load: the host fires the image's error event, for which
\* loadTexture has set no handler; the promise is neither resolved nor
\* rejected
ImageFail(p) ==
  /\ p \in 1..Len(promises)
  /\ promises[p].kind = "image" /\ promises[p].state = "pending"
  /\ promises[p].host = "loading"
  /\ ~MicrotaskPending /\ frame = "none"
  /\ promises' = [promises EXCEPT ![p].host = "failed"]
  /\ lastCall' = Call("image", promises[p].path, "error")
  /\ UNCHANGED <<map, outstandingRequests, waiters, glTextures>>
  /\ CacheGhostUnchanged /\ LoopAllUnchanged

\* ------------------------------------------------------------ continuations
\* the waitOnRequests() call whose continuation runs next: the first, in call
\* order, whose Promise.all has settled
FirstReady ==
  CHOOSE i \in 1..Len(waiters) :
    Ready(waiters[i]) /\ \A j \in 1..(i - 1) : ~Ready(waiters[j])

RemoveAt(seq, i) == SubSeq(seq, 1, i - 1) \o SubSeq(seq, i + 1, Len(seq))

\* await Promise.all(...) settles: it rejects once a member has rejected, and
\* resolves once every member is fulfilled
BarrierResult(snap) == IF AllRejects(snap) THEN "rejected" ELSE "resolved"

\* waitOnRequests() after its await: _outstandingRequests.length = 0, which
\* a rejection of the await skips
waitOnRequestsResume(w, i) ==
  [w EXCEPT !.waiters = RemoveAt(@, i),
            !.reqs = IF BarrierResult(w.waiters[i].snap) = "resolved" THEN << >> ELSE @,
            !.since = {}]

BarrierCall(op, path, result, i) ==
  [Call(op, path, result) EXCEPT !.barrier = BarrierResult(waiters[i].snap),
                                 !.snap = waiters[i].snap,
                                 !.keys = requestedSince,
                                 !.who = waiters[i].caller]

\* a waitOnRequests() call made by the client settles
WaitOnRequestsSettle ==
  /\ frame = "none"
  /\ MicrotaskPending
  /\ waiters[FirstReady].caller = "client"
  /\ SetWorld(waitOnRequestsResume(World, FirstReady))
  /\ lastCall' = BarrierCall("waitOnRequests", "-", BarrierResult(waiters[FirstReady].snap),
                             FirstReady)
  /\ UNCHANGED calls
  /\ LoopUnchanged

\* startLoop(scene) after its await, the barrier having resolved:
\* _scene.init(); _previousTime = performance.now(); _lagTime = 0.0;
\* _running = true; _frameId = requestAnimationFrame(loopStep).
\* _scene is the module variable, not the parameter.
StartLoopResume ==
  /\ frame = "none"
  /\ MicrotaskPending
  /\ waiters[FirstReady].caller \in AllScenes
  /\ LET i == FirstReady
         w == waitOnRequestsResume(World, i)
     IN
       IF BarrierResult(waiters[i].snap) = "rejected"
         THEN /\ SetWorld(w)
              /\ lastCall' = BarrierCall("resume", "-", "rejected", i)
              /\ UNCHANGED <<previousTime, lagTime, rafNext, inits, run>>
       ELSE IF scene = NoScene
         THEN /\ SetWorld(w)
              /\ lastCall' = BarrierCall("resume", "-", "TypeError", i)
              /\ UNCHANGED <<previousTime, lagTime, rafNext, inits, run>>
       ELSE IF initThrows(w, scene)
         THEN /\ SetWorld(w)
              /\ inits' = [inits EXCEPT ![scene] = @ + 1]
              /\ lastCall' = [BarrierCall("init", scene, "threw", i)
                                EXCEPT !.threw = initError(scene)]
              /\ UNCHANGED <<previousTime, lagTime, rafNext, run>>
       ELSE /\ SetWorld([w EXCEPT !.phase[scene] = "inited",
                                  !.running = TRUE,
                                  !.frameId = rafNext,
                                  !.raf = @ \cup {rafNext}])
            /\ inits' = [inits EXCEPT ![scene] = @ + 1]
            /\ previousTime' = startLoopPreviousTime(previousTime, now)
            /\ lagTime' = DZero
            /\ rafNext' = rafNext + 1
            /\ run' = [startTime |-> now, updates |-> 0]
            /\ lastCall' = BarrierCall("init", scene, "ok", i)
  /\ UNCHANGED <<now, frame, calls, frameTrace, inputVars>>

\* ------------------------------------------------- the client and the loop
\* the client calls s.start() on a scene it has just created: await startLoop(this)
StartLoop(s) ==
  /\ frame = "none"
  /\ phase[s] = "new"
  /\ IF startLoopThrows(World)
       THEN /\ SetWorld(World)
            /\ lastCall' = Call("startLoop", s, "LoopError")
       ELSE LET w == startLoop(World, s) IN
              /\ SetWorld(w)
              /\ lastCall' = Call("startLoop", s,
                                  IF w.threw # "" THEN w.threw ELSE "suspended")
  /\ UNCHANGED calls
  /\ LoopUnchanged

\* the client writes new class()
Construct(class) ==
  /\ frame = "none"
  /\ phase[class] = "unbuilt"
  /\ Cardinality({c \in SceneClasses : phase[c] # "unbuilt"}) < MaxScenes
  /\ IF constructorThrows(class)
       THEN /\ lastCall' = Call("new", class, "SceneError")
            /\ UNCHANGED phase
       ELSE /\ lastCall' = Call("new", class, "ok")
            /\ phase' = [phase EXCEPT ![class] = "new"]
  /\ UNCHANGED <<cacheVars, loads, unloads, calls, requestedSince, loopVars,
                 hostVars, inits, loadReqs, unloadCalls, traceVars, inputVars>>

\* the client calls s.next() on a scene it started, outside a frame
Next(s) ==
  /\ frame = "none"
  /\ phase[s] \in {"loaded", "inited"}
  /\ SetWorld(sceneNext(World, s))
  /\ lastCall' = Call("next", s, sceneNext(World, s).threw)
  /\ UNCHANGED calls
  /\ LoopUnchanged

\* the client calls s.stop() on a scene it started, outside a frame
Stop(s) ==
  /\ frame = "none"
  /\ phase[s] \in {"loaded", "inited"}
  /\ SetWorld(sceneStop(World, s))
  /\ lastCall' = Call("stop", s, sceneStop(World, s).threw)
  /\ UNCHANGED calls
  /\ LoopUnchanged

\* time passes between two tasks: the clock advances by d, up to max
Tick(d, max) ==
  /\ frame = "none"
  /\ now + d <= max
  /\ now' = now + d
  /\ lastCall' = Call("tick", "-", "ok")
  /\ UNCHANGED <<cacheVars, loads, unloads, calls, requestedSince,
                 loopVars, rafCallbacks, rafNext, frame, sceneVars, traceVars,
                 inputVars>>

\* what a scene's draw() may do besides drawing
DrawChoices == {"plain", "next"}

\* the world after a draw() of scene s that takes choice d
sceneDraw(w, s, d) ==
  IF notImplemented(s, "draw") THEN Throw(w, "SceneError")
  ELSE CASE d = "plain" -> w
         [] d = "next" -> sceneNext(w, s)

\* a loopStep() that does not draw
loopStepHeadNoDraw == <<"requestAnimationFrame">>

\* the calls loopStep() makes before its while loop, in order:
\* _frameId = requestAnimationFrame(loopStep); _scene.draw()
loopStepHead == <<"requestAnimationFrame", "draw">>

\* a turn that does not refresh the input
loopStepTurnNoInput == <<"update">>

\* the calls of one turn of loopStep()'s while loop, in order:
\* updateInput(); _scene.update()
loopStepTurn == <<"updateInput", "update">>

\* a while loop that stops once the loop is not running
loopStepContinuesWhileRunning(lag, isRunning) ==
  isRunning /\ DGeq(lag, MILLISECONDS_PER_UPDATE)

\* loopStep()'s while condition: _lagTime >= MILLISECONDS_PER_UPDATE; _running
\* is not read again
loopStepContinues(lag, isRunning) == DGeq(lag, MILLISECONDS_PER_UPDATE)

\* the host dispatches a requested frame: loopStep() up to its while loop.
\* D: what the draw() of the scenes at hand may do.
LoopStepBegin(f, D) ==
  /\ frame = "none"
  /\ ~MicrotaskPending
  /\ f \in rafCallbacks
  /\ rafNext <= MaxFrames
  /\ IF scene = NoScene
       THEN \* throw new LoopError('Scene not initialized')
            /\ SetWorld([World EXCEPT !.raf = @ \ {f}])
            /\ lastCall' = Call("loopStep", "-", "LoopError")
            /\ UNCHANGED <<previousTime, lagTime, rafNext, frame, frameTrace>>
     ELSE IF running
       THEN \* _frameId = requestAnimationFrame(loopStep); _scene.draw();
            \* elapsedTime = performance.now() - _previousTime;
            \* _previousTime = currentTime; _lagTime += elapsedTime
            \E d \in D :
              LET w0 == [World EXCEPT !.frameId = rafNext,
                                      !.raf = (@ \ {f}) \cup {rafNext}]
                  w == sceneDraw(w0, scene, d)
              IN /\ SetWorld(w)
                 /\ rafNext' = rafNext + 1
                 /\ lastCall' = [Call("draw", scene, phase[scene])
                                   EXCEPT !.did = d, !.threw = w.threw]
                 /\ frameTrace' = [lag0 |-> lagTime, elapsed |-> now - previousTime,
                                   log |-> loopStepHead]
                 /\ IF w.threw # ""
                      THEN frame' = "none" /\ UNCHANGED <<previousTime, lagTime>>
                      ELSE /\ previousTime' = now
                           /\ lagTime' = DAdd(lagTime, DFromMs(now - previousTime))
                           /\ frame' = "drain"
       ELSE /\ SetWorld([World EXCEPT !.raf = @ \ {f}])
            /\ lastCall' = Call("loopStep", "-", "notRunning")
            /\ UNCHANGED <<previousTime, lagTime, rafNext, frame, frameTrace>>
  /\ UNCHANGED <<now, inits, calls, run, inputVars>>

\* what a scene's update() may do besides moving its objects
UpdateChoices == {"plain", "next", "nextStart", "stop"}

\* the world after an update() of scene s that takes choice u (n: the scene
\* NextLevel.next() creates and starts)
sceneUpdate(w, s, u, n) ==
  IF notImplemented(s, "update") THEN Throw(w, "SceneError")
  ELSE CASE u = "plain" -> w
         [] u = "next" -> sceneNext(w, s)
         [] u = "nextStart" -> sceneNextStart(w, s, n)
         [] u = "stop" -> sceneStop(w, s)

\* one turn of loopStep()'s while loop:
\* while (_lagTime >= MILLISECONDS_PER_UPDATE) { updateInput(); _scene.update(); _lagTime -= ... }
\* An exception thrown by update() ends the frame callback.
\* U: what the update() of the scenes at hand may do.
LoopStepDrain(U) ==
  /\ frame = "drain"
  /\ IF ~loopStepContinues(lagTime, running)
       THEN /\ frame' = "none"
            /\ lastCall' = Call("loopStep", "-", "done")
            /\ SetWorld(World)
            /\ UNCHANGED <<lagTime, frameTrace, run, inputVars>>
     ELSE IF scene = NoScene
       THEN \* updateInput(), then _scene.update() on null
            /\ frame' = "none"
            /\ lastCall' = Call("loopStep", "-", "TypeError")
            /\ frameTrace' = [frameTrace EXCEPT !.log = Append(@, loopStepTurn[1])]
            /\ SetWorld(World)
            /\ PollInput
            /\ UNCHANGED <<lagTime, run>>
     ELSE \E u \in U, n \in AllScenes :
            /\ u = "nextStart" => phase[n] = "new"
            /\ u # "nextStart" => n = scene
            /\ LET w == sceneUpdate(World, scene, u, n) IN
                 /\ SetWorld(w)
                 /\ lastCall' = [Call("update", scene, phase[scene])
                                   EXCEPT !.did = u, !.threw = w.threw]
                 /\ frameTrace' = [frameTrace EXCEPT !.log = @ \o loopStepTurn]
                 /\ run' = [run EXCEPT !.updates = @ + 1]
                 /\ PollInput
                 /\ IF w.threw # ""
                      THEN frame' = "none" /\ UNCHANGED lagTime
                      ELSE /\ frame' = "drain"
                           /\ lagTime' = DSub(lagTime, MILLISECONDS_PER_UPDATE)
  /\ UNCHANGED <<previousTime, now, rafNext, inits, calls>>

\* ------------------------------------------------------------ specifications
\* The resource map used directly by client code.
CacheNext ==
  \/ \E path \in Keys : LoadText(path)
  \/ \E path \in Keys : LoadTexture(path)
  \/ \E path \in Keys : UnloadText(path)
  \/ \E path \in Keys : UnloadTexture(path)
  \/ WaitOnRequests
  \/ WaitOnRequestsSettle
  \/ \E p \in 1..MaxRequests : FetchResolve(p)
  \/ \E p \in 1..MaxRequests : FetchFail(p)
  \/ \E p \in 1..MaxRequests : ImageLoad(p)

Spec == Init /\ [][CacheNext]_vars

\* the host delivers a keydown event for key k (repeated while it is held)
KeyDown(k) ==
  /\ frame = "none"
  /\ input' = onKeyDown(input, k)
  /\ keyLog' = [keyLog EXCEPT !.latest[k] = "down"]
  /\ lastCall' = Call("keydown", "-", "ok")
  /\ UNCHANGED <<cacheVars, loads, unloads, calls, requestedSince, loopVars,
                 hostVars, sceneVars, traceVars>>

\* the host delivers a keyup event for key k
KeyUp(k) ==
  /\ frame = "none"
  /\ input' = onKeyUp(input, k)
  /\ keyLog' = [keyLog EXCEPT !.latest[k] = "up"]
  /\ lastCall' = Call("keyup", "-", "ok")
  /\ UNCHANGED <<cacheVars, loads, unloads, calls, requestedSince, loopVars,
                 hostVars, sceneVars, traceVars>>

\* updateInput() is called, as each turn of loopStep()'s while loop does
UpdateInput ==
  /\ frame = "none"
  /\ PollInput
  /\ lastCall' = Call("updateInput", "-", "ok")
  /\ UNCHANGED <<cacheVars, loads, unloads, calls, requestedSince, loopVars,
                 hostVars, sceneVars, traceVars>>

\* The input module: key events between polls.
InputNext ==
  \/ \E k \in KeyCodes : KeyDown(k)
  \/ \E k \in KeyCodes : KeyUp(k)
  \/ UpdateInput

InputSpec == Init /\ [][InputNext]_vars

\* Scene and the classes that leave one function to it: the client creates
\* them, starts them and ends them while the loop draws and updates.
SceneNext ==
  \/ \E c \in SceneClasses : Construct(c)
  \/ \E s \in AbstractScenes : StartLoop(s)
  \/ StartLoopResume
  \/ \E s \in AbstractScenes : Next(s)
  \/ \E s \in AbstractScenes : Stop(s)
  \/ \E d \in TickChoices : Tick(d, MaxTime)
  \/ \E f \in 1..MaxFrames : LoopStepBegin(f, {"plain"})
  \/ LoopStepDrain({"plain"})
  \/ \E p \in 1..MaxRequests : FetchResolve(p)

SceneSpec == Init /\ [][SceneNext]_vars

\* The same, with the scenes that supply all five functions started as well.
MixedNext ==
  \/ SceneNext
  \/ \E s \in Scenes : StartLoop(s)

MixedSpec == Init /\ [][MixedNext]_vars

\* The resource map used directly by client code, where every fetch and
\* every image load eventually succeeds or fails, and a continuation that is
\* ready eventually runs.
LiveNext ==
  \/ CacheNext
  \/ \E p \in 1..MaxRequests : ImageFail(p)

LiveSpec ==
  /\ Init /\ [][LiveNext]_vars
  /\ WF_vars(WaitOnRequestsSettle)
  /\ \A p \in 1..MaxRequests :
       /\ SF_vars(FetchResolve(p) \/ FetchFail(p))
       /\ SF_vars(ImageLoad(p) \/ ImageFail(p))

\* The resource map's own functions called by client code, with the loaders
\* built on loadDecodeParse.
MapNext ==
  \/ \E path \in Keys : LoadText(path)
  \/ \E path \in Keys : UnloadText(path)
  \/ \E path \in Keys : GetResource(path)
  \/ \E path \in Keys : IncrementRefCount(path)
  \/ \E path \in Keys : SetResource(path, <<"data", 0>>)
  \/ \E path \in Keys : RequestLoad(path)
  \/ \E p \in 1..MaxRequests : FetchResolve(p)
  \/ \E p \in 1..MaxRequests : FetchFail(p)

MapSpec == Init /\ [][MapNext]_vars

\* The loop driving scenes, whose load() and unload() use the resource map.
LoopNext ==
  \/ \E s \in Scenes : StartLoop(s)
  \/ StartLoopResume
  \/ \E s \in Scenes : Next(s)
  \/ \E s \in Scenes : Stop(s)
  \/ \E d \in TickChoices : Tick(d, MaxTime)
  \/ \E f \in 1..(MaxFrames + Cardinality(Scenes)) : LoopStepBegin(f, DrawChoices)
  \/ LoopStepDrain(UpdateChoices)
  \/ \E p \in 1..MaxRequests : FetchResolve(p)
  \/ \E p \in 1..MaxRequests : FetchFail(p)

LoopSpec == Init /\ [][LoopNext]_vars

\* The loop driving scenes whose draw() and update() only draw and move
\* objects, over longer times.
ClockNext ==
  \/ \E s \in Scenes : StartLoop(s)
  \/ StartLoopResume
  \/ \E d \in StallChoices : Tick(d, MaxStall)
  \/ \E f \in 1..(MaxFrames + Cardinality(Scenes)) : LoopStepBegin(f, {"plain"})
  \/ LoopStepDrain({"plain"})
  \/ \E p \in 1..MaxRequests : FetchResolve(p)

ClockSpec == Init /\ [][ClockNext]_vars

\* ------------------------------------------------------------------ claims
LoadOps == {"load", "loadTexture"}
UnloadOps == {"unload", "unloadTexture"}
\* the promises of path still in the array
OutstandingFor(path) ==
  {i \in 1..Len(outstandingRequests) : promises[outstandingRequests[i]].path = path}

\* C1: ref-count symmetry.  After n loadX(k) and m unloadX(k) calls the entry
\* for k is absent when m >= n, and present with refCount = n - m when m < n.
C1_RefCountSymmetry ==
  \A k \in Keys :
    IF unloads[k] >= loads[k]
      THEN ~hasResource(map, k)
      ELSE hasResource(map, k) /\ map[k].refCount = loads[k] - unloads[k]

\* C2: an unload of a present path decrements refCount by exactly 1 and
\* returns true exactly when it removed the entry (the count reached <= 0);
\* otherwise it returns false and the entry stays.  unloadTexture deletes the
\* GPU texture exactly when unloadResource returned true.
C2_UnloadDecrements ==
  (lastCall.op \in UnloadOps /\ lastCall.result \in {"true", "false"}) =>
    LET k == lastCall.path IN
      /\ (lastCall.result = "true") <=> ~hasResource(map, k)
      /\ (lastCall.result = "true") <=> (lastCall.pre - 1 <= 0)
      /\ lastCall.result = "false" => map[k].refCount = lastCall.pre - 1
      /\ lastCall.op = "unloadTexture" =>
           ((lastCall.result = "true") <=> (lastCall.snap \cap glTextures = {}))

\* C3: a cache miss triggers exactly one fetch.  When loadX(k) on a path not
\* in the cache is followed at once by a second loadX(k), exactly one fetch
\* has been started for k, exactly one pending operation is registered for
\* it, and the entry has refCount 2.
C3_OneFetchPerMiss ==
  [][\A k \in Keys :
       ( /\ lastCall.op \in LoadOps /\ lastCall.path = k
         /\ loads[k] = 1 /\ unloads[k] = 0
         /\ lastCall'.op = lastCall.op /\ lastCall'.path = k
         /\ loads'[k] = 2 )
       => ( /\ Fetches(k)' = 1
            /\ Cardinality(OutstandingFor(k)') = 1
            /\ map'[k].refCount = 2 )]_vars

\* C4: barrier completeness.  When a waitOnRequests() call resolves, every
\* path for which loadX was called since the previous barrier has an entry
\* with data.
C4_BarrierCompleteness ==
  lastCall.barrier = "resolved" =>
    \A k \in lastCall.keys : hasResource(map, k) /\ map[k].data # Null

\* C5: a waitOnRequests() call neither resolves nor rejects while an operation
\* that was in the array when it was called is still unsettled.
C5_BarrierWaitsForAll ==
  lastCall.barrier # "-" => Pending(lastCall.snap) = {}

\* C6: after a waitOnRequests() call has settled, resolved or rejected, the
\* array of outstanding requests is empty.
C6_BarrierClears ==
  lastCall.barrier # "-" => outstandingRequests = << >>

\* C7: scene lifecycle order.  draw() and update() are called on a scene only
\* after its init() has returned and before its unload() is called.
C7_LifecycleOrder ==
  lastCall.op \in {"draw", "update"} => lastCall.result = "inited"

\* C8: init() is called on a scene only after every request registered
\* during that scene's load() has settled.
C8_InitAfterLoadSettled ==
  lastCall.op = "init" =>
    \A p \in loadReqs[lastCall.path] : promises[p].state # "pending"

\* C9: startLoop(s2) called while the loop is running fails with LoopError
\* and changes nothing: the scene, running, previousTime, lagTime, the frame
\* handle and the scheduled frames are unchanged, and s2.load() is not called
\* (no scene's phase and nothing of the cache changes).
C9_StartWhileRunning ==
  [][(running /\ lastCall'.op = "startLoop") =>
       /\ lastCall'.result = "LoopError"
       /\ UNCHANGED <<loopVars, hostVars, sceneVars, cacheVars,
                      loads, unloads, calls, requestedSince>>]_vars

\* C9 (witness): a startLoop call has been rejected while the loop was running
C9_Witness ==
  running /\ lastCall.op = "startLoop" /\ lastCall.result = "LoopError"

\* C10: at most one startLoop call is loading a scene at a time (a second
\* call made while the first is suspended on the barrier fails), and init()
\* is called exactly once, on the scene given to the call that resumed.
C10_OneStartAtATime ==
  /\ Cardinality({i \in 1..Len(waiters) :
                    /\ waiters[i].caller \in Scenes
                    /\ phase[waiters[i].caller] = "loaded"}) <= 1
  /\ \A s \in Scenes : inits[s] <= 1
  /\ lastCall.op = "init" => lastCall.path = lastCall.who

\* C11: the loop has at most one outstanding frame callback (requested, not
\* yet dispatched, not cancelled) in every reachable state.
C11_OneOutstandingFrame == Cardinality(rafCallbacks) <= 1

\* C12: in every frame callback run while the loop is running, draw() is
\* called exactly once, after the next frame has been requested and before
\* any update() of that callback.
C12_DrawBeforeUpdate ==
  LET log == frameTrace.log IN
    log # << >> =>
      /\ Len(log) >= 2
      /\ log[1] = "requestAnimationFrame"
      /\ log[2] = "draw"
      /\ \A i \in 3..Len(log) : log[i] \notin {"requestAnimationFrame", "draw"}

\* C12 (witness): a frame callback is in its while loop after two updates
C12_Witness ==
  /\ frame = "drain"
  /\ Cardinality({i \in 1..Len(frameTrace.log) : frameTrace.log[i] = "update"}) >= 2

\* update() calls made by the frame callback running or last run
FrameUpdates ==
  Cardinality({i \in 1..Len(frameTrace.log) : frameTrace.log[i] = "update"})

\* a frame callback has just returned from loopStep()'s while loop
FrameDone == frame = "none" /\ lastCall.op = "loopStep" /\ lastCall.result = "done"

\* C13: fixed-step determinism.  After a frame callback that runs T
\* milliseconds after the loop entered Running, the number of update() calls
\* since the loop started is floor(T / (1000 / 60)), however T was split
\* between frame callbacks.
C13_FixedStepDeterminism ==
  (FrameDone /\ running) =>
    LET T == now - run.startTime IN
      /\ run.updates * 1000 <= T * UPDATES_PER_SECOND
      /\ T * UPDATES_PER_SECOND < (run.updates + 1) * 1000

\* C14: stalled frame.  A frame callback that starts with a lag of 0 and
\* observes 500 ms of elapsed time makes exactly 29 update() calls and ends
\* with a lag below one fixed step.
C14_StalledFrame ==
  (FrameDone /\ frameTrace.lag0 = DZero /\ frameTrace.elapsed = 500) =>
    /\ FrameUpdates = 29
    /\ ~DGeq(lagTime, MILLISECONDS_PER_UPDATE)

\* C14 (witness): a frame callback that found a lag of 0 and 500 ms elapsed
\* has returned after 29 updates
C14_Witness ==
  FrameDone /\ frameTrace.lag0 = DZero /\ frameTrace.elapsed = 500 /\ FrameUpdates = 29

\* stopLoop() was called in the last step: by next() or stop(), called by the
\* client or from inside draw() or update()
StopLoopCalled ==
  lastCall.op \in {"next", "stop"} \/ lastCall.did \in {"next", "nextStart", "stop"}

\* C15: when stopLoop() has been called, from outside or from inside draw()
\* or update(), the loop is not running and the frame it had requested is
\* cancelled; and while the loop is not running, a frame callback dispatched
\* calls neither draw() nor update() and requests no frame, until a startLoop
\* call makes the loop run again.
C15_StopLoop ==
  [][ /\ StopLoopCalled' => (~running' /\ frameId' \notin rafCallbacks')
      /\ (~running /\ frame = "none" /\ ~running') =>
           /\ lastCall'.op \notin {"draw", "update"}
           /\ rafCallbacks' \subseteq rafCallbacks
           /\ frame' = "none" ]_vars

\* C15 (witness): stopLoop() has been called from inside draw() or update()
C15_Witness ==
  /\ lastCall.op \in {"draw", "update"}
  /\ lastCall.did \in {"next", "stop"}
  /\ ~running

\* C16: a next() or stop() of a scene, called by the client or from inside
\* the scene's draw() or update(), cancels the requested frame and calls that
\* scene's unload() exactly once.
C16_UnloadOnce ==
  [][\A s \in Scenes :
       (lastCall'.path = s /\ StopLoopCalled') =>
         /\ unloadCalls'[s] = unloadCalls[s] + 1
         /\ frameId' \notin rafCallbacks']_vars

C18_GetResource ==
  [][lastCall'.op = "getResource" =>
       LET k == lastCall'.path IN
         /\ UNCHANGED <<map, outstandingRequests, promises, waiters, glTextures>>
         /\ IF ~hasResource(map, k)
              THEN lastCall'.result = "ResourceError: not found"
            ELSE IF map[k].data = Null
              THEN lastCall'.result = "ResourceError: data is null"
            ELSE lastCall'.result = "returned" /\ lastCall'.value = map[k].data]_vars

\* C18 (witness): getResource(k) was called while the load of k was in flight
C18_Witness ==
  /\ lastCall.op = "getResource"
  /\ lastCall.result = "ResourceError: data is null"
  /\ \E p \in 1..Len(promises) :
       promises[p].path = lastCall.path /\ promises[p].state = "pending"

\* C19: incrementRefCount(k), setResource(k, d) and unloadResource(k) on a
\* path with no entry fail with "not found" and leave the map, which gains no
\* entry, and the outstanding requests unchanged; on a present path
\* incrementRefCount adds exactly 1 to the entry's refCount and changes
\* nothing else, and setResource sets the data and nothing else.
C19_AbsentKeyFails ==
  [][lastCall'.op \in {"incrementRefCount", "setResource", "unload"} =>
       LET k == lastCall'.path IN
         /\ UNCHANGED <<outstandingRequests, promises, waiters, glTextures>>
         /\ IF ~hasResource(map, k)
              THEN /\ lastCall'.result \in {"ResourceError: not found", "ResourceError"}
                   /\ map' = map
            ELSE IF lastCall'.op = "incrementRefCount"
              THEN /\ lastCall'.result = "ok"
                   /\ DOMAIN map' = DOMAIN map
                   /\ \A j \in DOMAIN map :
                        /\ map'[j].data = map[j].data
                        /\ map'[j].refCount = map[j].refCount + (IF j = k THEN 1 ELSE 0)
            ELSE IF lastCall'.op = "setResource"
              THEN /\ lastCall'.result = "ok"
                   /\ DOMAIN map' = DOMAIN map
                   /\ \A j \in DOMAIN map :
                        /\ map'[j].refCount = map[j].refCount
                        /\ map'[j].data = (IF j = k THEN lastCall'.value ELSE map[j].data)
            ELSE TRUE]_vars

\* C19 (witness): incrementRefCount has failed on a path with no entry
\* while another path had one
C19_Witness ==
  /\ lastCall.op = "incrementRefCount"
  /\ lastCall.result = "ResourceError: not found"
  /\ map # << >>

\* a fetch of path k has failed
FailedFetch(k) ==
  \E p \in 1..Len(promises) :
    promises[p].path = k /\ promises[p].kind = "fetch" /\ promises[p].state = "rejected"

\* path k was never given to the texture loader
NoImage(k) == \A p \in 1..Len(promises) : promises[p].path = k => promises[p].kind = "fetch"

C22_PendingStaysOutstanding ==
  \A p \in 1..Len(promises) :
    promises[p].state = "pending" => p \in Range(outstandingRequests)

\* C24: in every reachable state of the loop, running implies that a scene
\* is attached.
C24_RunningHasScene == running => scene # NoScene

\* C24 (witness): the loop has been stopped and its scene dropped by
\* stop() after it had run
C24_Witness ==
  /\ lastCall.op = "stop"
  /\ scene = NoScene
  /\ \E s \in Scenes : inits[s] > 0

\* C25: a scene whose unload() unloads every path its load() loaded leaves
\* no entry for these paths after it was started and then ended with next() or
\* stop(), no other scene having been started.
C25_NoLeakAcrossScenes ==
  \A s \in Scenes :
    ( /\ lastCall.op \in {"next", "stop"} /\ lastCall.path = s
      /\ \A t \in Scenes \ {s} : phase[t] = "new" )
    => \A i \in 1..Len(SceneKeys(s)) : ~hasResource(map, SceneKeys(s)[i])

C27_StartResetsTiming ==
  /\ (lastCall.op = "init" /\ lastCall.result = "ok") =>
       (running /\ lagTime = <<0, 0>> /\ previousTime = now)
  /\ (frame = "drain" /\ run.updates = 0) =>
       DAdd(frameTrace.lag0, DFromMs(frameTrace.elapsed)) = DFromMs(now - run.startTime)

\* C27 (witness): the first frame callback of a loop restarted after an
\* earlier scene had ended, time having passed before the restart
C27_Witness ==
  /\ frame = "drain" /\ run.updates = 0
  /\ run.startTime > 0
  /\ \E s \in Scenes : phase[s] = "unloaded" /\ s # scene

\* thrice x, exactly
Triple(x) == <<3 * x[1] + (3 * x[2]) \div Limb, (3 * x[2]) % Limb>>

\* the lag the frame callback found plus the elapsed time it read, exactly
FrameLagAndElapsed ==
  <<frameTrace.lag0[1] + DFromMs(frameTrace.elapsed)[1], frameTrace.lag0[2]>>

\* C28: the lag is >= 0 in every reachable state; after a frame callback
\* that completes it is below one fixed step; and the callback has made
\* exactly floor((lag before + elapsed) / (1000 / 60)) updates, that is n
\* with 50 n <= 3 (lag before + elapsed) < 50 (n + 1).
C28_LagBounds ==
  /\ DGeq(lagTime, <<0, 0>>)
  /\ FrameDone =>
       /\ ~DGeq(lagTime, MILLISECONDS_PER_UPDATE)
       /\ DGeq(Triple(FrameLagAndElapsed), DFromMs((1000 \div 20) * FrameUpdates))
       /\ ~DGeq(Triple(FrameLagAndElapsed), DFromMs((1000 \div 20) * (FrameUpdates + 1)))

C26_BarrierSettles == (waiters # << >>) ~> (waiters = << >>)

\* C23: new Scene() fails with a SceneError and creates nothing; a call of
\* init, load, unload, draw or update on a scene fails with a SceneError
\* exactly when the scene's class does not override it; a start() of a scene
\* without load(), the loop not running, fails without init() being called
\* and leaves the loop not running.
C23_AbstractScene ==
  [][ /\ (lastCall'.op = "new" /\ lastCall'.path = "Scene")
           => (lastCall'.result = "SceneError" /\ phase' = phase)
      /\ (lastCall'.op = "new" /\ lastCall'.path # "Scene")
           => lastCall'.result = "ok"
      /\ \A s \in AllScenes :
           /\ (lastCall'.op \in {"init", "draw", "update"} /\ lastCall'.path = s)
                => LET m == lastCall'.op IN
                     (lastCall'.threw = "SceneError") <=> (m \notin Overrides(s))
           /\ (lastCall'.op = "next" /\ lastCall'.path = s)
                => ((lastCall'.result = "SceneError") <=> ("unload" \notin Overrides(s)))
           /\ (lastCall'.op = "stop" /\ lastCall'.path = s /\ "unload" \notin Overrides(s))
                => lastCall'.result = "SceneError"
           /\ (lastCall'.op = "startLoop" /\ lastCall'.path = s /\ ~running)
                => /\ (lastCall'.result = "SceneError") <=> ("load" \notin Overrides(s))
                   /\ "load" \notin Overrides(s)
                        => (~running' /\ inits' = inits /\ phase'[s] = "new"
                            /\ waiters' = waiters)
    ]_vars

C23_Witness ==
  /\ lastCall.op = "startLoop" /\ lastCall.path = "noLoad"
  /\ lastCall.result = "SceneError"
  /\ ~running /\ inits["noLoad"] = 0

\* C31: loadTexture(k) on a key already in the cache increments its ref count,
\* starts no image load, registers no pending operation and leaves the stored
\* data alone; on a miss it starts a load.
C31_TextureCacheProtocol ==
  [][ \A k \in Keys :
        (lastCall'.op = "loadTexture" /\ lastCall'.path = k)
          => IF hasResource(map, k)
               THEN /\ map'[k].refCount = map[k].refCount + 1
                    /\ map'[k].data = map[k].data
                    /\ promises' = promises
                    /\ outstandingRequests' = outstandingRequests
               ELSE /\ hasResource(map', k)
                    /\ Len(promises') = Len(promises) + 1
                    /\ Len(outstandingRequests') = Len(outstandingRequests) + 1
    ]_vars

\* C32: every entry in the cache has refCount >= 1: an entry is there from
\* the first load request for its key, it leaves the cache only in an unload
\* that finds refCount <= 0, and hasResource / getResource never show an entry
\* with refCount <= 0.
C32_PresentEntriesAreReferenced ==
  [][ /\ \A k \in Keys : hasResource(map', k) => map'[k].refCount >= 1
      /\ \A k \in Keys :
           /\ (lastCall'.op \in {"load", "requestLoad"} /\ lastCall'.path = k)
                => hasResource(map', k)
           /\ (hasResource(map, k) /\ ~hasResource(map', k))
                => (lastCall'.op = "unload" /\ lastCall'.path = k
                    /\ map[k].refCount <= 0)
           /\ (lastCall'.op = "getResource" /\ lastCall'.path = k
                /\ lastCall'.result # "ResourceError: not found")
                => (hasResource(map, k) /\ map[k].refCount >= 1)
    ]_vars

\* C32 (witness): an unload has returned and the entry it was given is still
\* in the cache, held more than once
C32_Witness ==
  /\ lastCall.op = "unload" /\ lastCall.result = "false"
  /\ hasResource(map, lastCall.path)
  /\ map[lastCall.path].refCount >= 2

\* C33: when draw() or update() throws without having stopped the loop, the
\* frame callback ends there (no further draw() or update() in it), the loop
\* is still running, exactly one frame is scheduled, and the time of the
\* frame is kept: the previous time (draw) or the lag (update) still holds it.
C33_ThrowInFrame ==
  [][ (lastCall'.op \in {"draw", "update"} /\ lastCall'.threw # "" /\ lastCall'.did = "plain")
        => /\ frame' = "none"
           /\ running'
           /\ Cardinality(rafCallbacks') = 1
           /\ frameId' \in rafCallbacks'
           /\ previousTime' = previousTime
           /\ lagTime' = lagTime
    ]_vars

\* C34: when next() or stop() of a scene was called while that scene's
\* startLoop call was suspended on the barrier, the continuation of that call
\* does not make the loop run: it calls no init() and requests no frame.
C34_StopDuringLoading ==
  [][ \A s \in Scenes :
        (lastCall'.op \in {"init", "resume"} /\ lastCall'.who = s
         /\ phase[s] = "unloaded")
          => /\ ~running'
             /\ inits' = inits
             /\ rafCallbacks' = rafCallbacks
    ]_vars

\* C35: a stop() whose cleanupLoop() finds no scene fails with LoopError and
\* leaves the loop as it was; one that finds a scene leaves the loop idle
\* (no scene, not running); and once stop() called from inside update() has
\* cleaned up, the frame callback attempts no update() on the absent scene.
C35_CleanupLoop ==
  [][ /\ (lastCall'.op = "stop" /\ lastCall'.result = "LoopError")
           => (scene = NoScene /\ scene' = NoScene /\ ~running')
      /\ (lastCall'.op = "stop" /\ lastCall'.result = "")
           => (scene # NoScene /\ scene' = NoScene /\ ~running')
      /\ (frame = "drain" /\ scene = NoScene)
           => (lastCall'.result # "TypeError" /\ frameTrace'.log = frameTrace.log)
    ]_vars

\* C36: every frame callback dispatched finds a scene set: while a frame is
\* scheduled a scene is attached, so that loopStep() never throws its
\* 'Scene not initialized' LoopError.
C36_FrameFindsScene ==
  /\ rafCallbacks # {} => scene # NoScene
  /\ ~(lastCall.op = "loopStep" /\ lastCall.result = "LoopError")

\* C37: after an input poll, isKeyPressed(k) is true exactly when key k was
\* up at the poll before and is down at this one (so a key held down is
\* reported at one poll only, until it has been released and pressed again),
\* and isKeyDown(k) is true exactly when the latest event of k is a key-down.
C37_KeyPressedOncePerPress ==
  \A k \in KeyCodes :
    /\ Truthy(isKeyPressed(input, k)) <=> (~keyLog.before[k] /\ keyLog.at[k])
    /\ Truthy(isKeyDown(input, k)) <=> (keyLog.latest[k] = "down")

====
